---- MODULE Spec2Model ----
(***************************************************************************)
(* TimberCounter: the App page (src/App.tsx) and the DetectionCanvas       *)
(* overlay renderer (src/components/DetectionCanvas.tsx).                  *)
(*                                                                         *)
(* The module has three parts:                                             *)
(*   1. JavaScript Number arithmetic as draw uses it (IEEE-754 binary64    *)
(*      division and multiplication, and the integer conversion that a     *)
(*      canvas dimension applies);                                         *)
(*   2. draw as a function of (canvas, imageObj, detections, clientWidth); *)
(*   3. the state machine of App and of the mounted DetectionCanvas: event *)
(*      handlers, asynchronous completions, React renders and effects.     *)
(***************************************************************************)
EXTENDS Integers, Sequences, FiniteSets, TLC

NULL == "null"

(***************************************************************************)
(* Part 1.  JavaScript numbers.                                            *)
(*                                                                         *)
(* A non-zero double is sgn * 1.f * 2^exp, with f a 52-bit fraction.  The  *)
(* fraction is kept as four 13-bit digits d[1..4] so that every            *)
(* intermediate value of the arithmetic below stays below 2^31.            *)
(***************************************************************************)
DigitBits == 13

RECURSIVE Pow2(_)
Pow2(n) == IF n = 0 THEN 1 ELSE 2 * Pow2(n - 1)

Base == Pow2(DigitBits)

FZero == [sgn |-> 0, exp |-> 0, d |-> <<0, 0, 0, 0>>]

Abs(n) == IF n < 0 THEN -n ELSE n

Sign(n) == IF n < 0 THEN -1 ELSE IF n = 0 THEN 0 ELSE 1

\* b * 2^e <= a < b * 2^(e+1), reached by doubling one side: <<a', b', e>>
\* with b' <= a' < 2b' and a/b = (a'/b') * 2^e.
RECURSIVE Normalise(_, _, _)
Normalise(a, b, e) ==
    IF a < b THEN Normalise(2 * a, b, e - 1)
    ELSE IF a >= 2 * b THEN Normalise(a, 2 * b, e + 1)
    ELSE <<a, b, e>>

\* Adds one unit in the last place to the fraction digits d; the result is
\* <<digits, carry out of the fraction>>.
IncDigits(d) ==
    LET c4 == IF d[4] + 1 = Base THEN 1 ELSE 0
        c3 == IF d[3] + c4 = Base THEN 1 ELSE 0
        c2 == IF d[2] + c3 = Base THEN 1 ELSE 0
        c1 == IF d[1] + c2 = Base THEN 1 ELSE 0
    IN  << << (d[1] + c2) % Base, (d[2] + c3) % Base,
              (d[3] + c4) % Base, (d[4] + 1) % Base >>, c1 >>

\* Round to nearest, ties to even: the 53-bit significand 1.d with the
\* discarded part compared with half a unit in the last place.
RoundNearestEven(sgn, exp, d, above, tie) ==
    IF above \/ (tie /\ d[4] % 2 = 1)
    THEN LET inc == IncDigits(d)
         IN  IF inc[2] = 1
             THEN [sgn |-> sgn, exp |-> exp + 1, d |-> <<0, 0, 0, 0>>]
             ELSE [sgn |-> sgn, exp |-> exp, d |-> inc[1]]
    ELSE [sgn |-> sgn, exp |-> exp, d |-> d]

\* a / b for integers a >= 0, b > 0, correctly rounded to a double.
FDiv(a, b) ==
    IF a = 0 THEN FZero
    ELSE LET n  == Normalise(a, b, 0)
             r0 == n[1] - n[2]
             d1 == (r0 * Base) \div n[2]
             r1 == (r0 * Base) % n[2]
             d2 == (r1 * Base) \div n[2]
             r2 == (r1 * Base) % n[2]
             d3 == (r2 * Base) \div n[2]
             r3 == (r2 * Base) % n[2]
             d4 == (r3 * Base) \div n[2]
             r4 == (r3 * Base) % n[2]
         IN  RoundNearestEven(1, n[3], <<d1, d2, d3, d4>>,
                              2 * r4 > n[2], 2 * r4 = n[2])

\* Number of bits by which t >= 1 exceeds one bit: floor(log2(t)).
RECURSIVE Log2(_)
Log2(t) == IF t < 2 THEN 0 ELSE 1 + Log2(t \div 2)

\* n * x for an integer n and a double x, correctly rounded to a double.
FMul(n, x) ==
    IF n = 0 \/ x.sgn = 0 THEN FZero
    ELSE LET m   == Abs(n)
             t4  == x.d[4] * m
             t3  == x.d[3] * m + (t4 \div Base)
             t2  == x.d[2] * m + (t3 \div Base)
             t1  == x.d[1] * m + (t2 \div Base)
             top == m + (t1 \div Base)
             s   == Log2(top)
             p   == Pow2(s)
             w1  == (top % p) * Base + (t1 % Base)
             w2  == (w1 % p) * Base + (t2 % Base)
             w3  == (w2 % p) * Base + (t3 % Base)
             w4  == (w3 % p) * Base + (t4 % Base)
             lost == w4 % p
         IN  RoundNearestEven(Sign(n) * x.sgn, x.exp + s,
                              <<w1 \div p, w2 \div p, w3 \div p, w4 \div p>>,
                              s > 0 /\ 2 * lost > p, s > 0 /\ 2 * lost = p)

\* The integer part of a double x >= 0 (x < 2^26).
Trunc(x) ==
    IF x.sgn = 0 \/ x.exp < 0 THEN 0
    ELSE ((Base + x.d[1]) * Base + x.d[2]) \div Pow2(2 * DigitBits - x.exp)

\* Math.round of a double x >= 0 (x < 2^26): what an explicit rounding of
\* the height would give.
RoundHalfUp(x) ==
    IF x.sgn = 0 \/ x.exp < -1 THEN 0
    ELSE IF x.exp = -1 THEN 1
    ELSE LET twice == ((Base + x.d[1]) * Base + x.d[2])
                          \div Pow2(2 * DigitBits - x.exp - 1)
         IN  (twice + 1) \div 2

\* WebIDL conversion of a Number to the unsigned long of canvas.width and
\* canvas.height: the fraction is dropped.
ToUnsignedLong(x) == Trunc(x)

(***************************************************************************)
(* Part 2.  draw (DetectionCanvas.tsx, lines 21-63) as a function.         *)
(*                                                                         *)
(* A canvas is [width, height, ops]: its two dimension attributes and the  *)
(* sequence of paint operations applied since the bitmap was last cleared. *)
(* An image is [src, gen, naturalWidth, naturalHeight]; a box is           *)
(* <<x1, y1, x2, y2>>.                                                     *)
(***************************************************************************)
\* A fresh <canvas> element: 300 x 150, nothing painted.
NewCanvas == [width |-> 300, height |-> 150, ops |-> <<>>]

\* A resize that kept the bitmap: what draw would do if it skipped the
\* assignments of lines 34-35.
ResizeSurfaceKeepsBitmap(cv, w, h) == [cv EXCEPT !.width = w, !.height = h]

\* Lines 34-35: assigning canvas.width or canvas.height, even to the value it
\* has, clears the bitmap and resets the context state.
ResizeSurface(cv, w, h) == [width |-> w, height |-> h, ops |-> <<>>]

\* Line 38: ctx.drawImage(imageObj, 0, 0, canvas.width, canvas.height).
DrawImageOp(cv, img) ==
    [op |-> "drawImage", src |-> img.src, dw |-> cv.width, dh |-> cv.height]

\* The rectangle with the far corner taken for the size: lines 46-47 without
\* their subtractions.
ScaledRectCorners(box, scaleFactor) ==
    [x |-> FMul(box[1], scaleFactor),
     y |-> FMul(box[2], scaleFactor),
     w |-> FMul(box[3], scaleFactor),
     h |-> FMul(box[4], scaleFactor)]

\* Lines 46-47, 52, 57, 61: the rectangle all three operations of a box use.
ScaledRect(box, scaleFactor) ==
    [x |-> FMul(box[1], scaleFactor),
     y |-> FMul(box[2], scaleFactor),
     w |-> FMul(box[3] - box[1], scaleFactor),
     h |-> FMul(box[4] - box[2], scaleFactor)]

\* The three operations of a box with the fill painted first.
PaintBoxFillFirst(box, scaleFactor) ==
    LET rect == ScaledRect(box, scaleFactor)
    IN  << [op |-> "fillRect", style |-> "rgba(74, 222, 128, 0.15)",
            lineWidth |-> 2, rect |-> rect],
           [op |-> "strokeRect", style |-> "rgba(0,0,0,0.5)", lineWidth |-> 5,
            rect |-> rect],
           [op |-> "strokeRect", style |-> "#4ade80", lineWidth |-> 2,
            rect |-> rect] >>

\* Lines 45-62: the body of detections.forEach for one box.
PaintBox(box, scaleFactor) ==
    LET rect == ScaledRect(box, scaleFactor)
    IN  << [op |-> "strokeRect", style |-> "rgba(0,0,0,0.5)", lineWidth |-> 5,
            rect |-> rect],
           [op |-> "strokeRect", style |-> "#4ade80", lineWidth |-> 2,
            rect |-> rect],
           [op |-> "fillRect", style |-> "rgba(74, 222, 128, 0.15)",
            lineWidth |-> 2, rect |-> rect] >>

\* Line 45: detections.forEach, in list order.
RECURSIVE PaintBoxes(_, _)
PaintBoxes(boxes, scaleFactor) ==
    IF boxes = <<>> THEN <<>>
    ELSE PaintBox(Head(boxes), scaleFactor) \o PaintBoxes(Tail(boxes), scaleFactor)

\* useState<HTMLImageElement | null>(null), line 13: the null image.
NoImage == [src |-> NULL, gen |-> 0, naturalWidth |-> 0, naturalHeight |-> 0]

\* Line 24: the early return of draw.  attached says that canvasRef.current
\* and containerRef.current are set (React sets both at mount and clears both
\* at unmount).
DrawReturnsEarly(attached, img) == ~attached \/ img = NoImage

\* draw with the guard of line 24 placed after the sizing of lines 30-35.
drawSizesFirst(attached, cv, clientWidth, img, boxes) ==
    LET scaleFactor   == IF img = NoImage THEN FZero
                         ELSE FDiv(clientWidth, img.naturalWidth)
        displayHeight == FMul(img.naturalHeight, scaleFactor)
        sized == ResizeSurface(cv, clientWidth, ToUnsignedLong(displayHeight))
        based == [sized EXCEPT !.ops = Append(@, DrawImageOp(sized, img))]
    IN  IF DrawReturnsEarly(attached, img) THEN sized
        ELSE [based EXCEPT !.ops = @ \o PaintBoxes(boxes, scaleFactor)]

\* Lines 21-63.  cv is the canvas element, clientWidth is
\* containerRef.current.clientWidth, img is imageObj, boxes is detections.
draw(attached, cv, clientWidth, img, boxes) ==
    IF DrawReturnsEarly(attached, img) THEN cv
    ELSE LET scaleFactor   == FDiv(clientWidth, img.naturalWidth)
             displayHeight == FMul(img.naturalHeight, scaleFactor)
             sized == ResizeSurface(cv, clientWidth, ToUnsignedLong(displayHeight))
             based == [sized EXCEPT !.ops = Append(@, DrawImageOp(sized, img))]
         IN  [based EXCEPT !.ops = @ \o PaintBoxes(boxes, scaleFactor)]

(***************************************************************************)
(* Part 3.  App and the mounted DetectionCanvas as a state machine.        *)
(***************************************************************************)
VARIABLES
    isDemoMode,   \* App.tsx line 12
    state,        \* App.tsx lines 13-19: [image, file, results, loading, error]
    picks,        \* number of files chosen or sample loads started so far
    readers,      \* FileReader reads (and sample fetches) in flight
    requests,     \* detection submissions in flight
    mounted,      \* a DetectionCanvas instance is mounted (App.tsx line 162)
    imageSrc,     \* the imageSrc prop of the instance's last render
    detections,   \* the detections prop of the last render: [ref, boxes]
    imageObj,     \* DetectionCanvas.tsx line 13
    decodes,      \* Image objects whose onload has not fired: [img, live]
    loads,        \* number of Image objects the load effect has created
    loadStatus,   \* decode of the instance's latest Image
    canvas,       \* the <canvas> element of canvasRef
    clientWidth,  \* containerRef.current.clientWidth, set by the layout
    listeners,    \* draw closures registered for window 'resize', in order
    effects,      \* passive effects committed and not yet run
    last,         \* what the last step did: how draw was called (via), whether
                  \* it returned early, whether its inputs were those of the
                  \* call before (same), whether an image had been drawn
                  \* before (ready) and in a container of width 0 (wasZero);
                  \* which decode called setImageObj (set); which handler
                  \* of App retried or started a submission (op)
    drawn         \* inputs of the last call of draw on this instance

appVars == <<isDemoMode, state, picks, readers, requests>>

canvasVars == <<mounted, imageSrc, detections, imageObj, decodes, loads,
                loadStatus, canvas, clientWidth, listeners, effects, drawn>>

vars == <<isDemoMode, state, picks, readers, requests, mounted, imageSrc,
          detections, imageObj, decodes, loads, loadStatus, canvas,
          clientWidth, listeners, effects, last, drawn>>

(***************************************************************************)
(* Bounds and value domains.                                               *)
(***************************************************************************)
\* Files chosen plus sample loads started in one run.
MaxPicks == 2

\* Files the user can choose; "X" holds bytes that do not decode as an image.
Files == {"A", "X"}

\* The file loadSampleImage builds (App.tsx line 48).
SampleFile == "S"

\* reader.result (App.tsx lines 52, 73): the data URI of a file.
DataURL(file) == "data:" \o file

\* Whether the browser can decode the source, and the natural size it finds.
Decodable(src) == src # DataURL("X")

NaturalWidth(src) == IF src = DataURL("A") THEN 640 ELSE 1200

NaturalHeight(src) == IF src = DataURL("A") THEN 480 ELSE 800

\* Widths the layout gives the container (0: not laid out yet).
Widths == {0, 600}

\* Responses of the detection service and of the simulator: [log_count,
\* detections].  In state.results a response also carries its identity (ref)
\* and the image its submission was started for (image).
Box1 == <<100, 100, 300, 300>>

Box2 == <<0, 0, 1200, 800>>

Responses == { [log_count |-> 0, detections |-> <<>>],
               [log_count |-> 2, detections |-> <<Box1, Box2>>] }

NoResults == [ref |-> 0, image |-> NULL, log_count |-> 0, detections |-> <<>>]

NoLast ==
    [via |-> "none", early |-> FALSE, same |-> FALSE, ready |-> FALSE,
     wasZero |-> FALSE, set |-> "none", op |-> "none"]

NoDraw == [img |-> NoImage, boxes |-> <<>>, width |-> -1]

(***************************************************************************)
(* React: rendering DetectionCanvas.                                       *)
(***************************************************************************)
\* App.tsx line 194: state.results?.detections || [].  A results object keeps
\* its array; without results every render of App builds a new empty array,
\* whose reference (0 or -1) differs from the one of the render before.
\* The detections prop if App kept the array of the render before when it
\* has no results.
DetectionsPropKeepsLast(results, prev) ==
    IF results = NoResults
    THEN [ref |-> IF prev.ref = 0 THEN -1 ELSE 0, boxes |-> prev.boxes]
    ELSE [ref |-> results.ref, boxes |-> results.detections]

DetectionsProp(results, prev) ==
    IF results = NoResults
    THEN [ref |-> IF prev.ref = 0 THEN -1 ELSE 0, boxes |-> <<>>]
    ELSE [ref |-> results.ref, boxes |-> results.detections]

\* A render output without the placeholder branch.
ShowsNoPlaceholder(img) == FALSE

\* DetectionCanvas.tsx lines 72-77: {!imageObj && <placeholder>}; the canvas
\* element of line 78 is rendered in both cases.
ShowsPlaceholder(img) == img = NoImage

\* DetectionCanvas.tsx line 19: the dependencies of the load effect.
LoadDepsChanged(oldSrc, newSrc) == oldSrc # newSrc

\* The dependencies of draw without detections.
DrawDepsImageOnly(oldImg, newImg, oldDet, newDet) == oldImg # newImg

\* DetectionCanvas.tsx lines 63, 69: draw is rebuilt, and the draw effect
\* re-run, when imageObj or the detections reference changed.
DrawDepsChanged(oldImg, newImg, oldDet, newDet) ==
    oldImg # newImg \/ oldDet.ref # newDet.ref

\* First render of a new instance (App.tsx line 194 after line 162 chose the
\* image branch): fresh state and refs, both effects scheduled.  extra holds
\* the effects of App that the same commit schedules.
Mount(st, extra) ==
    /\ mounted' = TRUE
    /\ imageSrc' = st.image
    /\ detections' = DetectionsProp(st.results, detections)
    /\ imageObj' = NoImage
    /\ canvas' = NewCanvas
    /\ loadStatus' = "idle"
    /\ drawn' = NoDraw
    /\ effects' = {"load", "draw"} \cup extra
    /\ UNCHANGED <<decodes, loads, clientWidth, listeners>>

\* Re-render of the mounted instance with the props App passes.
Update(st, extra) ==
    LET det == DetectionsProp(st.results, detections)
    IN  /\ imageSrc' = st.image
        /\ detections' = det
        /\ effects' = (IF LoadDepsChanged(imageSrc, st.image) THEN {"load"} ELSE {})
                      \cup (IF DrawDepsChanged(imageObj, imageObj, detections, det)
                            THEN {"draw"} ELSE {})
                      \cup extra
        /\ UNCHANGED <<mounted, imageObj, canvas, loadStatus, drawn, decodes,
                       loads, clientWidth, listeners>>

\* App.tsx line 162 chose the upload branch: the instance is removed.  Its
\* refs are cleared and its state dropped now; the cleanup of its draw effect
\* (line 68) is a passive effect and runs later.
Unmount(extra) ==
    /\ mounted' = FALSE
    /\ imageSrc' = NULL
    /\ imageObj' = NoImage
    /\ loadStatus' = "idle"
    /\ decodes' = {[d EXCEPT !.live = FALSE] : d \in decodes}
    /\ effects' = {"cleanup"} \cup extra
    /\ UNCHANGED <<detections, canvas, drawn, loads, clientWidth, listeners>>

\* App renders with state st (App.tsx lines 162-194) and React commits it.
\* demoChanged: isDemoMode changed, so the effect of App.tsx lines 124-128 is
\* scheduled with the commit.
RenderApp(st, demoChanged) ==
    LET extra == IF demoChanged THEN {"app"} ELSE {}
    IN  IF st.image = NULL
        THEN IF mounted THEN Unmount(extra)
             ELSE /\ effects' = extra
                  /\ UNCHANGED <<mounted, imageSrc, detections, imageObj, decodes,
                                 loads, loadStatus, canvas, clientWidth, listeners,
                                 drawn>>
        ELSE IF mounted THEN Update(st, extra) ELSE Mount(st, extra)

(***************************************************************************)
(* DetectionCanvas: effects, decode completion, resize.                    *)
(***************************************************************************)
\* DetectionCanvas.tsx lines 16-17: new Image() with src = imageSrc.
NewImage(src, gen) ==
    [src |-> src, gen |-> gen,
     naturalWidth |-> NaturalWidth(src), naturalHeight |-> NaturalHeight(src)]

\* The draw closure of a render (line 21): it captures imageObj and detections.
DrawClosure(img, det) == [img |-> img, det |-> det]

\* What one call of closure c reads: the inputs of that draw (lines 24-45).
DrawInputs(c, width) == [img |-> c.img, boxes |-> c.det.boxes, width |-> width]

\* The record of one call of closure c.
DrawCall(via, attached, c, width) ==
    [via |-> via, early |-> DrawReturnsEarly(attached, c.img),
     same |-> DrawInputs(c, width) = drawn, ready |-> drawn.img # NoImage,
     wasZero |-> drawn.img # NoImage /\ drawn.width = 0,
     set |-> "none", op |-> "none"]

\* A cleanup that removes nothing.
RemoveNoListener(ls, c) == ls

\* window.removeEventListener('resize', c), line 68.
RemoveEventListener(ls, c) == SelectSeq(ls, LAMBDA x : x # c)

\* A draw effect that registers nothing.
AddNoListener(ls, c) == ls

\* window.addEventListener('resize', c), line 67: a listener already
\* registered is not registered twice.
AddEventListener(ls, c) ==
    IF \E i \in 1..Len(ls) : ls[i] = c THEN ls ELSE Append(ls, c)

\* Lines 65-69, one run of the draw effect: the cleanup of the previous run
\* removes the closure that run registered, then draw() and addEventListener.
RunDrawEffect(ls, c) ==
    AddEventListener(IF ls = <<>> THEN ls
                     ELSE RemoveEventListener(ls, ls[Len(ls)]), c)

\* The passive effects React has committed run: cleanups first, then the load
\* effect (lines 15-19), then the draw effect (lines 65-69).  The effect of
\* App, when scheduled, runs after them (AppEffect).
FlushEffects ==
    /\ effects \ {"app"} # {}
    /\ LET runLoad == "load" \in effects
           runDraw == "draw" \in effects
           c       == DrawClosure(imageObj, detections)
       IN  /\ decodes' = IF runLoad
                         THEN decodes \cup {[img |-> NewImage(imageSrc, loads + 1),
                                             live |-> TRUE]}
                         ELSE decodes
           /\ loads' = IF runLoad THEN loads + 1 ELSE loads
           /\ loadStatus' = IF runLoad THEN "decoding" ELSE loadStatus
           /\ listeners' = IF "cleanup" \in effects THEN <<>>
                           ELSE IF runDraw THEN RunDrawEffect(listeners, c)
                           ELSE listeners
           /\ canvas' = IF runDraw
                        THEN draw(TRUE, canvas, clientWidth, c.img, c.det.boxes)
                        ELSE canvas
           /\ last' = IF runDraw THEN DrawCall("effect", TRUE, c, clientWidth)
                      ELSE NoLast
           /\ drawn' = IF runDraw THEN DrawInputs(c, clientWidth) ELSE drawn
    /\ effects' = effects \cap {"app"}
    /\ UNCHANGED <<mounted, imageSrc, detections, imageObj, clientWidth>>
    /\ UNCHANGED appVars

\* Line 18: img.onload = () => setImageObj(img).  On an unmounted instance
\* the state update is dropped.
ImageOnload(d) ==
    /\ effects = {}
    /\ d \in decodes
    /\ Decodable(d.img.src)
    /\ decodes' = decodes \ {d}
    /\ IF d.live
       THEN /\ imageObj' = d.img
            /\ effects' = IF DrawDepsChanged(imageObj, d.img, detections, detections)
                          THEN {"draw"} ELSE {}
            /\ loadStatus' = IF d.img.gen = loads THEN "decoded" ELSE loadStatus
            /\ last' = [NoLast EXCEPT
                          !.set = IF d.img.gen = loads THEN "current" ELSE "stale"]
       ELSE /\ UNCHANGED <<imageObj, effects, loadStatus>>
            /\ last' = NoLast
    /\ UNCHANGED <<mounted, imageSrc, detections, loads, canvas, clientWidth,
                   listeners, drawn>>
    /\ UNCHANGED appVars

\* The decode fails: the Image has no onerror handler (lines 16-18), so
\* nothing is notified.
ImageError(d) ==
    /\ d \in decodes
    /\ ~Decodable(d.img.src)
    /\ decodes' = decodes \ {d}
    /\ loadStatus' = IF d.live /\ d.img.gen = loads THEN "failed" ELSE loadStatus
    /\ last' = NoLast
    /\ UNCHANGED <<mounted, imageSrc, detections, imageObj, loads, canvas,
                   clientWidth, listeners, effects, drawn>>
    /\ UNCHANGED appVars

\* The listeners of a 'resize' event run in registration order.
RECURSIVE RunListeners(_, _, _, _)
RunListeners(ls, attached, cv, width) ==
    IF ls = <<>> THEN cv
    ELSE RunListeners(Tail(ls), attached,
                      draw(attached, cv, width, Head(ls).img, Head(ls).det.boxes),
                      width)

\* The window is resized and the layout gives the container width w; the
\* registered listeners (line 67) are called.
Resize(w) ==
    /\ clientWidth' = w
    /\ canvas' = RunListeners(listeners, mounted, canvas, w)
    /\ IF listeners = <<>>
       THEN /\ last' = NoLast
            /\ drawn' = drawn
       ELSE LET c == listeners[Len(listeners)]
            IN  /\ last' = DrawCall("resize", mounted, c, w)
                /\ drawn' = DrawInputs(c, w)
    /\ UNCHANGED <<mounted, imageSrc, detections, imageObj, decodes, loads,
                   loadStatus, listeners, effects>>
    /\ UNCHANGED appVars

(***************************************************************************)
(* App: event handlers and asynchronous completions.                       *)
(***************************************************************************)
EmptyState ==
    [image |-> NULL, file |-> NULL, results |-> NoResults, loading |-> FALSE,
     error |-> NULL]

\* App.tsx lines 51-57 and 72-78: the state a finished file read sets.
LoadedState(file) ==
    [image |-> DataURL(file), file |-> file, results |-> NoResults,
     loading |-> FALSE, error |-> NULL]

\* The identity of a response object: the smallest number no submission in
\* flight and no results object still referenced carries.
FreshRef ==
    LET used == {r.id : r \in requests} \cup {state.results.ref, detections.ref}
    IN  CHOOSE n \in 1..(Cardinality(used) + 1) : n \notin used

\* App.tsx lines 67-81, handleFileChange: the input exists while no image is
\* shown (line 162); the read is started and no state is set.
handleFileChange(file) ==
    /\ state.image = NULL
    /\ picks < MaxPicks
    /\ file \in Files
    /\ picks' = picks + 1
    /\ readers' = readers \cup {[id |-> picks + 1, kind |-> "file", file |-> file]}
    /\ last' = NoLast
    /\ UNCHANGED <<isDemoMode, state, requests>>
    /\ UNCHANGED canvasVars

\* App.tsx lines 71-79: reader.onload of handleFileChange.
FileReaderOnload(r) ==
    /\ effects = {}
    /\ r \in readers
    /\ r.kind = "file"
    /\ readers' = readers \ {r}
    /\ state' = LoadedState(r.file)
    /\ RenderApp(state', FALSE)
    /\ last' = NoLast
    /\ UNCHANGED <<isDemoMode, picks, requests>>

\* App.tsx lines 43-49, loadSampleImage up to the fetch: the button exists
\* while no image is shown (lines 162, 181).
loadSampleImage ==
    /\ effects = {}
    /\ state.image = NULL
    /\ picks < MaxPicks
    /\ picks' = picks + 1
    /\ readers' = readers \cup {[id |-> picks + 1, kind |-> "sample",
                                 file |-> SampleFile]}
    /\ state' = [state EXCEPT !.loading = TRUE, !.error = NULL]
    /\ RenderApp(state', FALSE)
    /\ last' = NoLast
    /\ UNCHANGED <<isDemoMode, requests>>

\* App.tsx lines 62-64: the fetch of the sample fails.
SampleFetchFails(r) ==
    /\ effects = {}
    /\ r \in readers
    /\ r.kind = "sample"
    /\ readers' = readers \ {r}
    /\ state' = [state EXCEPT !.loading = FALSE,
                              !.error = "Failed to load sample image."]
    /\ RenderApp(state', FALSE)
    /\ last' = NoLast
    /\ UNCHANGED <<isDemoMode, picks, requests>>

\* App.tsx lines 50-60: reader.onload of loadSampleImage; both updates are
\* committed by one render.
SampleReaderOnload(r) ==
    /\ effects = {}
    /\ r \in readers
    /\ r.kind = "sample"
    /\ readers' = readers \ {r}
    /\ state' = LoadedState(r.file)
    /\ isDemoMode' = TRUE
    /\ RenderApp(state', ~isDemoMode)
    /\ last' = NoLast
    /\ UNCHANGED <<picks, requests>>

\* App.tsx lines 83-99, handleSubmit up to its first await, called from a
\* render whose closure holds (state, isDemoMode); by names the caller.
Submit(by) ==
    /\ state.image # NULL
    /\ state' = [state EXCEPT !.loading = TRUE, !.error = NULL]
    /\ requests' = requests \cup {[id |-> FreshRef, demo |-> isDemoMode,
                                   image |-> state.image]}
    /\ RenderApp(state', FALSE)
    /\ last' = [NoLast EXCEPT !.op = by]
    /\ UNCHANGED <<isDemoMode, picks, readers>>

\* The submit button (App.tsx lines 207-214): shown without results,
\* disabled while loading.
handleSubmit ==
    /\ effects = {}
    /\ state.results = NoResults
    /\ ~state.loading
    /\ Submit("click")

\* App.tsx lines 124-128: the effect keyed on isDemoMode.
AppEffect ==
    /\ effects = {"app"}
    /\ IF /\ isDemoMode
          /\ state.image # NULL
          /\ state.results = NoResults
          /\ ~state.loading
          /\ state.error = NULL
       THEN Submit("effect")
       ELSE /\ effects' = {}
            /\ last' = NoLast
            /\ UNCHANGED <<isDemoMode, state, picks, readers, requests, mounted,
                           imageSrc, detections, imageObj, decodes, loads,
                           loadStatus, canvas, clientWidth, listeners, drawn>>

\* App.tsx lines 33-36, one box of generateMockDetections from the three
\* values Math.random() returns for it, each given in sixteenths (r / 16):
\*   size = random * (width * 0.1) + (width * 0.05)
\*   x = random * (width - size),  y = random * (height - size)
\*   [x, y, x + size, y + size]
\* For a width that is a multiple of 2560 and a height that is a multiple of
\* 16 every intermediate value is an integer the double arithmetic computes
\* exactly, so the integer expressions below are the doubles of the code.
MockBox(width, height, r1, r2, r3) ==
    LET size == (r1 * width) \div 160 + width \div 20
        x    == (r2 * (width - size)) \div 16
        y    == (r3 * (height - size)) \div 16
    IN  <<x, y, x + size, y + size>>

\* App.tsx lines 27-38, the onload of generateMockDetections for an image of
\* natural size width x height; random[n] is the value of the n-th call of
\* Math.random(), in sixteenths: the first call gives the count
\* (Math.floor(random * 10) + 15), then three calls per box.
generateMockDetections(width, height, random) ==
    LET count == (10 * random[0]) \div 16 + 15
    IN  [log_count |-> count,
         detections |-> [i \in 1..count |->
                           MockBox(width, height, random[3 * i - 2],
                                   random[3 * i - 1], random[3 * i])]]

\* App.tsx lines 88-90: generateMockDetections (lines 22-41) resolves, which
\* needs its own Image of the submitted source to load.
DemoResolves(r, resp) ==
    /\ effects = {}
    /\ r \in requests
    /\ r.demo
    /\ Decodable(r.image)
    /\ requests' = requests \ {r}
    /\ state' = [state EXCEPT
                   !.results = [ref |-> r.id, image |-> r.image,
                                log_count |-> resp.log_count,
                                detections |-> resp.detections],
                   !.loading = FALSE]
    /\ RenderApp(state', FALSE)
    /\ last' = NoLast
    /\ UNCHANGED <<isDemoMode, picks, readers>>

\* App.tsx lines 97-103: the detection service answers.
LiveSucceeds(r, resp) ==
    /\ effects = {}
    /\ r \in requests
    /\ ~r.demo
    /\ resp \in Responses
    /\ requests' = requests \ {r}
    /\ state' = [state EXCEPT
                   !.results = [ref |-> r.id, image |-> r.image,
                                log_count |-> resp.log_count,
                                detections |-> resp.detections],
                   !.loading = FALSE]
    /\ RenderApp(state', FALSE)
    /\ last' = NoLast
    /\ UNCHANGED <<isDemoMode, picks, readers>>

\* App.tsx lines 104-110: the fetch fails or the status is not ok.
LiveFails(r) ==
    /\ effects = {}
    /\ r \in requests
    /\ ~r.demo
    /\ requests' = requests \ {r}
    /\ state' = [state EXCEPT !.loading = FALSE, !.error = "Could not connect"]
    /\ RenderApp(state', FALSE)
    /\ last' = NoLast
    /\ UNCHANGED <<isDemoMode, picks, readers>>

\* App.tsx lines 113-115, handleReset: its buttons exist while an image is
\* shown (lines 216-225).
handleReset ==
    /\ effects = {}
    /\ state.image # NULL
    /\ state' = EmptyState
    /\ RenderApp(state', FALSE)
    /\ last' = NoLast
    /\ UNCHANGED <<isDemoMode, picks, readers, requests>>

\* App.tsx line 150: the mode switch.
ToggleDemoMode ==
    /\ effects = {}
    /\ isDemoMode' = ~isDemoMode
    /\ RenderApp(state, TRUE)
    /\ last' = NoLast
    /\ UNCHANGED <<state, picks, readers, requests>>

\* App.tsx lines 117-121, toggleAndRetry: its button exists while an error
\* is shown (lines 272, 285).
toggleAndRetry ==
    /\ effects = {}
    /\ state.error # NULL
    /\ isDemoMode' = TRUE
    /\ state' = [state EXCEPT !.error = NULL]
    /\ RenderApp(state', ~isDemoMode)
    /\ last' = [NoLast EXCEPT !.op = "toggleAndRetry"]
    /\ UNCHANGED <<picks, readers, requests>>

(***************************************************************************)
(* The specification of the page.                                          *)
(***************************************************************************)
Init ==
    /\ isDemoMode = FALSE
    /\ state = EmptyState
    /\ picks = 0
    /\ readers = {}
    /\ requests = {}
    /\ mounted = FALSE
    /\ imageSrc = NULL
    /\ detections = [ref |-> 0, boxes |-> <<>>]
    /\ imageObj = NoImage
    /\ decodes = {}
    /\ loads = 0
    /\ loadStatus = "idle"
    /\ canvas = NewCanvas
    /\ clientWidth \in Widths
    /\ listeners = <<>>
    /\ effects = {}
    /\ last = NoLast
    /\ drawn = NoDraw

Next ==
    \/ \E file \in Files : handleFileChange(file)
    \/ \E r \in readers : FileReaderOnload(r)
    \/ loadSampleImage
    \/ \E r \in readers : SampleFetchFails(r)
    \/ \E r \in readers : SampleReaderOnload(r)
    \/ handleSubmit
    \/ AppEffect
    \/ \E r \in requests, resp \in Responses : DemoResolves(r, resp)
    \/ \E r \in requests, resp \in Responses : LiveSucceeds(r, resp)
    \/ \E r \in requests : LiveFails(r)
    \/ handleReset
    \/ ToggleDemoMode
    \/ toggleAndRetry
    \/ FlushEffects
    \/ \E d \in decodes : ImageOnload(d)
    \/ \E d \in decodes : ImageError(d)
    \/ \E w \in Widths : Resize(w)

Spec == Init /\ [][Next]_vars

\* The steps of FlushEffects, told by the variable every run of it changes:
\* no other action takes effects from a set holding an effect of the
\* instance to effects \cap {"app"}, and FlushEffects is enabled exactly when
\* effects holds one.
FlushEffectsRuns ==
    /\ effects \ {"app"} # {}
    /\ effects' = effects \cap {"app"}

\* React runs the passive effects of every commit: those of the instance and
\* the effect of App.
SpecFair == Spec /\ WF_effects(FlushEffectsRuns) /\ WF_vars(AppEffect)

(***************************************************************************)
(* The specification of DetectionCanvas under any parent.                  *)
(*                                                                         *)
(* App is replaced by a parent that may set any state at any time; what it *)
(* renders from that state (App.tsx lines 162, 194) is kept.  Every        *)
(* behaviour of the page is one of these behaviours.                       *)
(***************************************************************************)
\* Image objects one run creates.
MaxLoads == 2

CanvasWidths == {0, 600, 601}

Sources == {DataURL(f) : f \in Files \cup {SampleFile}}

\* A response object other than the one now held.
OtherRef(ref) == IF ref = 1 THEN 2 ELSE 1

ParentRenders(image, results) ==
    /\ effects = {}
    /\ (image # NULL /\ (~mounted \/ image # imageSrc)) => loads < MaxLoads
    /\ state' = [EmptyState EXCEPT !.image = image, !.results = results]
    /\ RenderApp(state', FALSE)
    /\ last' = NoLast
    /\ UNCHANGED <<isDemoMode, picks, readers, requests>>

NextCanvas ==
    \/ \E image \in Sources \cup {NULL} :
         \/ ParentRenders(image, state.results)
         \/ ParentRenders(image, NoResults)
         \/ \E resp \in Responses :
              ParentRenders(image, [ref |-> OtherRef(state.results.ref),
                                    image |-> image,
                                    log_count |-> resp.log_count,
                                    detections |-> resp.detections])
    \/ FlushEffects
    \/ \E d \in decodes : ImageOnload(d)
    \/ \E d \in decodes : ImageError(d)
    \/ \E w \in CanvasWidths : Resize(w)

SpecCanvas == Init /\ [][NextCanvas]_vars

\* React runs the passive effects of every commit.
SpecCanvasFair == SpecCanvas /\ WF_effects(FlushEffectsRuns)

(***************************************************************************)
(* The specification of draw as a function of its inputs.                  *)
(*                                                                         *)
(* A mounted instance whose decode has ended (with an image of any of the  *)
(* sizes below, or with none), holding any list of boxes, in a container   *)
(* of any width, painted by its draw effect; then resize events call draw. *)
(***************************************************************************)
\* Longest list of boxes.
MaxBoxes == 2

\* <<naturalWidth, naturalHeight>>
DrawSizes == {<<1200, 800>>, <<640, 480>>, <<11, 11>>}

DrawWidths == {0, 15, 600, 601}

\* A box inside the image, the whole image, and a box with x2 < x1, y2 = y1.
DrawBoxes == {Box1, Box2, <<300, 200, 100, 200>>}

RECURSIVE BoxLists(_)
BoxLists(n) ==
    IF n = 0 THEN {<<>>}
    ELSE BoxLists(n - 1)
         \cup {Append(l, b) : l \in {k \in BoxLists(n - 1) : Len(k) = n - 1},
                              b \in DrawBoxes}

DrawImages ==
    {[src |-> DataURL("A"), gen |-> 1, naturalWidth |-> s[1],
      naturalHeight |-> s[2]] : s \in DrawSizes}

InitDraw ==
    /\ isDemoMode = FALSE
    /\ \E l \in BoxLists(MaxBoxes) :
         /\ state = [LoadedState("A") EXCEPT
                       !.results = [ref |-> 1, image |-> DataURL("A"),
                                    log_count |-> Len(l), detections |-> l]]
         /\ detections = DetectionsProp(state.results, NoResults)
    /\ picks = 1
    /\ readers = {}
    /\ requests = {}
    /\ mounted = TRUE
    /\ imageSrc = state.image
    /\ imageObj \in DrawImages \cup {NoImage}
    /\ decodes = {}
    /\ loads = 1
    /\ loadStatus = IF imageObj = NoImage THEN "failed" ELSE "decoded"
    /\ clientWidth \in DrawWidths
    /\ canvas = draw(TRUE, NewCanvas, clientWidth, imageObj, detections.boxes)
    /\ listeners = <<DrawClosure(imageObj, detections)>>
    /\ effects = {}
    /\ last = NoLast
    /\ drawn = DrawInputs(DrawClosure(imageObj, detections), clientWidth)

NextDraw == \E w \in DrawWidths : Resize(w)

SpecDraw == InitDraw /\ [][NextDraw]_vars

(***************************************************************************)
(* The specification of the simulator.                                     *)
(*                                                                         *)
(* App in simulation mode showing a decoded image of any of the sizes      *)
(* below; the user submits and generateMockDetections resolves with the    *)
(* boxes it computes from any of the streams of random values below.       *)
(***************************************************************************)
\* <<naturalWidth, naturalHeight>>: landscape, much wider than tall, portrait.
MockSizes == {<<2560, 1920>>, <<2560, 160>>, <<2560, 5120>>}

\* A stream of values of Math.random(), in sixteenths: it starts at seed[1]
\* and advances by seed[2].
RandomStream(seed) == [n \in 0..72 |-> (seed[1] + seed[2] * n) % 16]

MockSeeds == {<<a, b>> : a \in {0, 5, 10, 15}, b \in {1, 3, 5, 7, 9, 11}}

MockImages ==
    {[src |-> DataURL("A"), gen |-> 1, naturalWidth |-> s[1],
      naturalHeight |-> s[2]] : s \in MockSizes}

InitMock ==
    /\ isDemoMode = TRUE
    /\ state = LoadedState("A")
    /\ detections = DetectionsProp(state.results, NoResults)
    /\ picks = 1
    /\ readers = {}
    /\ requests = {}
    /\ mounted = TRUE
    /\ imageSrc = state.image
    /\ imageObj \in MockImages
    /\ decodes = {}
    /\ loads = 1
    /\ loadStatus = "decoded"
    /\ clientWidth = 640
    /\ canvas = draw(TRUE, NewCanvas, clientWidth, imageObj, detections.boxes)
    /\ listeners = <<DrawClosure(imageObj, detections)>>
    /\ effects = {}
    /\ last = NoLast
    /\ drawn = DrawInputs(DrawClosure(imageObj, detections), clientWidth)

NextMock ==
    \/ handleSubmit
    \/ \E r \in requests, seed \in MockSeeds :
         DemoResolves(r, generateMockDetections(imageObj.naturalWidth,
                                                imageObj.naturalHeight,
                                                RandomStream(seed)))
    \/ FlushEffects

SpecMock == InitMock /\ [][NextMock]_vars

(***************************************************************************)
(* Properties.                                                             *)
(***************************************************************************)
\* The last step called draw and draw painted.
Painted == last.via # "none" /\ ~last.early

\* C1, as the specification states it: once the decode of the latest source
\* has completed, the image held, and the image any draw paints, is the one
\* of that decode, in whatever order the decodes of earlier sources complete.
C1_GenerationRace ==
    (mounted /\ loadStatus = "decoded") =>
        /\ imageObj.gen = loads
        /\ Painted => drawn.img.gen = loads

\* C2, as the specification states it: every draw that paints, paints an
\* image decoded from the current imageSrc.
C2_NoStalePaint ==
    (mounted /\ Painted) => drawn.img.src = imageSrc

\* C3, as the specification states it: the draw effect does not repaint when
\* the decoded image, the boxes and the container width are those of the
\* draw before.
C3_NoRedundantRepaint ==
    (last.via = "effect" /\ ~last.early) => ~last.same

RoundDiv(n, d) == (2 * n + d) \div (2 * d)

\* C5, as the specification states it: after a painting draw of an image of
\* natural size (W, H) in a container of width C the surface is C wide and
\* round(H*C/W) high.
C5_HeightRounded ==
    Painted => /\ canvas.width = drawn.width
               /\ canvas.height = RoundDiv(drawn.img.naturalHeight * drawn.width,
                                           drawn.img.naturalWidth)

\* C5, amended: after a painting draw the surface is C wide and its height h is
\* H*C/W with the fraction dropped, never rounded up: h <= H*C/W <= h + 1, and
\* h + 1 = H*C/W only when the quotient is a whole number that the double
\* product H * (C / W) falls short of.
C5_HeightTruncated ==
    Painted =>
        LET W == drawn.img.naturalWidth
            H == drawn.img.naturalHeight
            C == drawn.width
            h == canvas.height
        IN  /\ canvas.width = C
            /\ h * W <= H * C
            /\ H * C <= (h + 1) * W
            /\ (H * C) % W # 0 => h = (H * C) \div W

\* A painting draw whose height rounding and truncation tell apart.
C5_Witness ==
    /\ Painted
    /\ canvas.height # RoundDiv(drawn.img.naturalHeight * drawn.width,
                                drawn.img.naturalWidth)
    /\ canvas.height > 0

\* The rectangles of the stroke and fill operations of a canvas.
PaintedRects(cv) == {cv.ops[k].rect : k \in 2..Len(cv.ops)}

\* The list boxes in the order p (a permutation of its indices).
Permuted(boxes, p) == [i \in 1..Len(boxes) |-> boxes[p[i]]]

\* C6: a painting draw paints, for the i-th box (x1,y1,x2,y2) of the list and
\* s = C/W, three operations on the rectangle with origin (x1*s, y1*s) and size
\* ((x2-x1)*s, (y2-y1)*s), nothing else besides the base image, and the set of
\* rectangles is the one any other order of the list gives.
C6_BoxTransform ==
    Painted =>
        LET boxes == drawn.boxes
            s     == FDiv(drawn.width, drawn.img.naturalWidth)
        IN  /\ Len(canvas.ops) = 1 + 3 * Len(boxes)
            /\ \A i \in 1..Len(boxes) : \A j \in 1..3 :
                 canvas.ops[1 + 3 * (i - 1) + j].rect =
                     [x |-> FMul(boxes[i][1], s),
                      y |-> FMul(boxes[i][2], s),
                      w |-> FMul(boxes[i][3] - boxes[i][1], s),
                      h |-> FMul(boxes[i][4] - boxes[i][2], s)]
            /\ \A p \in Permutations(1..Len(boxes)) :
                 PaintedRects(draw(TRUE, NewCanvas, drawn.width, drawn.img,
                                   Permuted(boxes, p))) = PaintedRects(canvas)

\* A painting draw of two different boxes in a laid-out container.
C6_Witness ==
    /\ Painted
    /\ Len(drawn.boxes) = 2
    /\ drawn.boxes[1] # drawn.boxes[2]
    /\ drawn.width > 0
    /\ Cardinality(PaintedRects(canvas)) = 2

\* C7: a painting draw leaves the surface that the same draw leaves on a new
\* canvas, whatever was painted before; and a draw whose inputs are those of
\* the draw before it leaves the surface as that draw left it.
C7_Idempotent ==
    [][(last'.via # "none" /\ ~last'.early) =>
          /\ canvas' = draw(TRUE, NewCanvas, drawn'.width, drawn'.img, drawn'.boxes)
          /\ last'.same => canvas' = canvas]_vars

\* Two painting draws in a row with the same image, boxes and width.
C7_Witness ==
    /\ Painted
    /\ last.same
    /\ drawn.boxes # <<>>
    /\ drawn.width > 0

\* C8: a draw that returns early (no decoded image, or the refs detached)
\* leaves the dimensions and the painted content of the canvas as they were.
C8_NoOp ==
    [][(last'.via # "none" /\ last'.early) => canvas' = canvas]_vars

\* draw was called by the draw effect while no image was decoded.
C8_Witness ==
    /\ last.via = "effect"
    /\ last.early
    /\ mounted
    /\ imageObj = NoImage

\* C9, as the specification states it: while the decode of the current source
\* has failed, no decoded image is held and no draw paints.
C9_FailedDecodeNotReady ==
    (mounted /\ loadStatus = "failed") => (imageObj = NoImage /\ ~Painted)

\* C10, as the specification states it: setImageObj is never called by the
\* decode of a source that a later source has replaced.
C10_ReadyOncePerSource == last.set # "stale"

\* The canvas holds a stroke or a fill.
HasOverlay(cv) == \E k \in 1..Len(cv.ops) : cv.ops[k].op # "drawImage"

\* C11: a painting draw of an empty list leaves the base image as the only
\* operation; while state.results is null the instance's detections prop is
\* the empty list; and no stroke or fill appears on the canvas of a mounted
\* instance in a step that starts and ends with results null.
C11_EmptyDetections ==
    /\ [](/\ (Painted /\ drawn.boxes = <<>>) =>
                canvas.ops = <<DrawImageOp(canvas, drawn.img)>>
          /\ (mounted /\ state.results = NoResults) => detections.boxes = <<>>)
    /\ [][(/\ state.results = NoResults
           /\ state'.results = NoResults
           /\ mounted'
           /\ ~(mounted /\ HasOverlay(canvas))) => ~HasOverlay(canvas')]_vars

\* The draw effect repainted a decoded image in a laid-out container while
\* results was null.
C11_Witness ==
    /\ mounted
    /\ state.results = NoResults
    /\ last.via = "effect"
    /\ Painted
    /\ last.ready
    /\ drawn.width > 0
    /\ canvas.ops = <<DrawImageOp(canvas, imageObj)>>

\* The canvas shows the image-with-overlays of the held image, the current
\* detections and the current container width.
ShowsRendering ==
    /\ imageObj # NoImage
    /\ canvas = draw(TRUE, NewCanvas, clientWidth, imageObj, detections.boxes)

C14_PaintOrder ==
    Painted =>
        LET boxes == drawn.boxes
            s     == FDiv(drawn.width, drawn.img.naturalWidth)
        IN  /\ Len(canvas.ops) = 1 + 3 * Len(boxes)
            /\ canvas.ops[1].op = "drawImage"
            /\ \A i \in 1..Len(boxes) :
                 LET shadow    == canvas.ops[3 * i - 1]
                     highlight == canvas.ops[3 * i]
                     fill      == canvas.ops[3 * i + 1]
                 IN  /\ shadow.op = "strokeRect" /\ shadow.lineWidth = 5
                     /\ shadow.style = "rgba(0,0,0,0.5)"
                     /\ highlight.op = "strokeRect" /\ highlight.lineWidth = 2
                     /\ highlight.style = "#4ade80"
                     /\ fill.op = "fillRect"
                     /\ fill.style = "rgba(74, 222, 128, 0.15)"
                     /\ shadow.rect = ScaledRect(boxes[i], s)
                     /\ highlight.rect = shadow.rect
                     /\ fill.rect = shadow.rect

\* A painting draw of a box followed by a box that overlaps it: the fill of
\* the first precedes the shadow stroke of the second.
C14_Witness ==
    /\ Painted
    /\ drawn.width > 0
    /\ drawn.boxes = <<Box1, Box2>>
    /\ canvas.ops[4].op = "fillRect"
    /\ canvas.ops[5].lineWidth = 5
    /\ canvas.ops[4].rect # canvas.ops[5].rect

\* C15, as the specification states it: after toggleAndRetry was invoked with
\* an image present, no results and no submission loading, the effect of App
\* starts a simulated submission for that image.
C15_RetryStartsSimulation ==
    (/\ last.op = "toggleAndRetry"
     /\ state.image # NULL
     /\ state.results = NoResults
     /\ ~state.loading)
        ~> (/\ last.op = "effect"
            /\ \E r \in requests : r.demo /\ r.image = state.image)

\* C16, as the specification states it: the response of the simulator for an
\* image of natural size (W, H) has log_count equal to its number of boxes
\* and in 15..24, and every box is ordered and inside the image.
C16_MockWellFormed ==
    (state.results # NoResults) =>
        LET W == imageObj.naturalWidth
            H == imageObj.naturalHeight
            boxes == state.results.detections
        IN  /\ state.results.log_count = Len(boxes)
            /\ state.results.log_count \in 15..24
            /\ \A i \in 1..Len(boxes) :
                 /\ boxes[i][1] <= boxes[i][3]
                 /\ boxes[i][2] <= boxes[i][4]
                 /\ 0 <= boxes[i][1] /\ boxes[i][3] <= W
                 /\ 0 <= boxes[i][2] /\ boxes[i][4] <= H

\* C17, as the specification states it: results held by App are the response
\* to a submission that was started for the image now shown.
C17_ResultsBelongToImage ==
    (state.results # NoResults) => (state.results.image = state.image)

\* A submission or a sample load is in flight for what App now shows.
Pending ==
    \/ \E r \in requests : r.image = state.image
    \/ \E r \in readers : r.kind = "sample"

\* C18, as the specification states it: state.loading is true exactly while a
\* submission started for the current image, or a sample load, is in flight.
C18_LoadingIffPending == state.loading <=> Pending

\* C19, as the specification states it: in every state a mounted instance has
\* exactly one resize listener, the draw closure of its current image and
\* detections, and an unmounted one has none.
C19_ListenerAlways ==
    /\ mounted => listeners = <<DrawClosure(imageObj, detections)>>
    /\ ~mounted => listeners = <<>>

\* C19, amended: at most one resize listener is registered in any state; once
\* the effects of the last render have run, a mounted instance has exactly
\* one, the draw closure of its current image and detections, and an
\* unmounted one has none; and no step on an unmounted instance (a decode
\* that completes, a resize) changes the canvas.
C19_ListenerLifecycle ==
    /\ [](/\ Len(listeners) <= 1
          /\ (mounted /\ effects = {}) =>
                listeners = <<DrawClosure(imageObj, detections)>>
          /\ (~mounted /\ effects = {}) => listeners = <<>>)
    /\ [][(~mounted /\ ~mounted') => canvas' = canvas]_vars

\* The draw effect of a later render replaced the listener of an instance
\* that had painted an image before.
C19_Witness ==
    /\ mounted
    /\ effects = {}
    /\ last.via = "effect"
    /\ last.ready
    /\ ~last.same
    /\ Len(listeners) = 1
    /\ listeners[1] = DrawClosure(imageObj, detections)
    /\ listeners[1].img # NoImage

====
